---- MODULE Spec2Model ----
(***************************************************************************)
(* Model of dns_health_checker.py: the Streamlit batch loop, the DNS       *)
(* fetch helpers, analyze_records with its MX transport probes, and        *)
(* compute_score.                                                          *)
(*                                                                         *)
(* Python strings are sequences of one-character strings, so that lower(), *)
(* startswith(), the "in" substring test, strip(), slicing and the DMARC   *)
(* regular expression are computed on the text, as the code computes them. *)
(* Fixed display texts (reasoning, recommendation) are TLA+ strings, with  *)
(* the em dash written "--".  Calls that only write to Streamlit widgets   *)
(* (status_placeholder.text, st.error, the result rendering after the      *)
(* loop) are not state that any modelled code reads and are left out; the  *)
(* key set of the status_placeholders dict is kept, since line 325 indexes *)
(* it.                                                                     *)
(***************************************************************************)
EXTENDS Integers, Sequences, FiniteSets, TLC

\* ------------------------------------------------------------------------
\* Bounds of the model
\* ------------------------------------------------------------------------
MaxTxt == 2      \* most TXT strings in one DNS answer
MaxMx == 2       \* most MX records in one DNS answer
MaxBatch == 2    \* most lines in the submitted text area

\* ------------------------------------------------------------------------
\* Python str operations
\* ------------------------------------------------------------------------
UpperChars ==
  <<"A","B","C","D","E","F","G","H","I","J","K","L","M",
    "N","O","P","Q","R","S","T","U","V","W","X","Y","Z">>
LowerChars ==
  <<"a","b","c","d","e","f","g","h","i","j","k","l","m",
    "n","o","p","q","r","s","t","u","v","w","x","y","z">>
Digits == {"0","1","2","3","4","5","6","7","8","9"}
Letters == {UpperChars[i] : i \in 1..26} \cup {LowerChars[i] : i \in 1..26}
WordChars == Letters \cup Digits \cup {"_"}             \* regex \w
Whitespace == {" ", "\t", "\n", "\r"}                 \* str.strip() default
SchemeChars == Letters \cup Digits \cup {"+", "-", "."} \* urllib scheme_chars

lower_char(c) ==
  IF \E i \in 1..26 : UpperChars[i] = c
  THEN LowerChars[CHOOSE i \in 1..26 : UpperChars[i] = c]
  ELSE c

\* str.lower()
lower(s) == [i \in 1..Len(s) |-> lower_char(s[i])]

\* str.startswith(prefix)
startswith(s, prefix) ==
  /\ Len(s) >= Len(prefix)
  /\ SubSeq(s, 1, Len(prefix)) = prefix

\* "sub in s"
contains(s, sub) ==
  \E i \in 1..(Len(s) - Len(sub) + 1) : SubSeq(s, i, i + Len(sub) - 1) = sub

\* str.lstrip(chars): drops every leading character that is in chars
lstrip(s, chars) ==
  LET keep == {i \in 1..Len(s) : s[i] \notin chars}
  IN IF keep = {} THEN <<>>
     ELSE SubSeq(s, CHOOSE i \in keep : \A j \in keep : i <= j, Len(s))

\* str.rstrip(chars)
rstrip(s, chars) ==
  LET keep == {i \in 1..Len(s) : s[i] \notin chars}
  IN IF keep = {} THEN <<>>
     ELSE SubSeq(s, 1, CHOOSE i \in keep : \A j \in keep : i >= j)

\* str.strip(chars)
strip(s, chars) == rstrip(lstrip(s, chars), chars)

\* s[:n]
prefix_slice(s, n) == SubSeq(s, 1, IF Len(s) < n THEN Len(s) ELSE n)

\* index of the first position >= i whose character is in chars, or
\* Len(s) + 1 when there is none
first_in(s, i, chars) ==
  LET hits == {j \in i..Len(s) : s[j] \in chars}
  IN IF hits = {} THEN Len(s) + 1
     ELSE CHOOSE j \in hits : \A h \in hits : j <= h

\* index of the first position >= i whose character is NOT in chars, or
\* Len(s) + 1 when there is none
first_not_in(s, i, chars) ==
  LET hits == {j \in i..Len(s) : s[j] \notin chars}
  IN IF hits = {} THEN Len(s) + 1
     ELSE CHOOSE j \in hits : \A h \in hits : j <= h

\* ------------------------------------------------------------------------
\* Text constants of the program
\* ------------------------------------------------------------------------
TAG_SPF ==
  <<"v","=","s","p","f","1">>
TOK_HARD ==
  <<"-","a","l","l">>
TOK_SOFT ==
  <<"~","a","l","l">>
TAG_DMARC ==
  <<"v","=","d","m","a","r","c","1">>
TAG_DKIM ==
  <<"v","=","d","k","i","m","1">>
TAG_BIMI ==
  <<"v","=","b","i","m","i","1">>
TAG_STS ==
  <<"v","=","s","t","s","1">>
STR_Missing ==
  <<"M","i","s","s","i","n","g">>
STR_none ==
  <<"n","o","n","e">>
STR_reject ==
  <<"r","e","j","e","c","t">>
STR_quarantine ==
  <<"q","u","a","r","a","n","t","i","n","e">>
STR_p ==
  <<"p">>
STR_www ==
  <<"w","w","w",".">>
STR_scheme_sep ==
  <<":","/","/">>
STR_ellipsis ==
  <<".",".",".">>
STR_colon_space ==
  <<":"," ">>
LBL_dmarc ==
  <<"_","d","m","a","r","c">>
LBL_domainkey ==
  <<".","_","d","o","m","a","i","n","k","e","y">>
LBL_bimi ==
  <<"_","b","i","m","i">>
LBL_mta_sts ==
  <<"_","m","t","a","-","s","t","s">>
SEL_google ==
  <<"g","o","o","g","l","e">>
SEL_default ==
  <<"d","e","f","a","u","l","t">>
SEL_selector1 ==
  <<"s","e","l","e","c","t","o","r","1">>
SEL_selector2 ==
  <<"s","e","l","e","c","t","o","r","2">>
RD_spf_hard ==
  <<"\"","v","=","s","p","f","1"," ","m","x"," ","-","a","l","l","\"">>
RD_spf_soft ==
  <<"\"","v","=","s","p","f","1"," ","m","x"," ","~","a","l","l","\"">>
RD_spf_neutral ==
  <<"\"","v","=","S","P","F","1"," ","a"," ","?","a","l","l","\"">>
RD_txt_note ==
  <<"\"","m","s","=","1"," ","-","a","l","l","\"">>
RD_dmarc_reject ==
  <<"\"","v","=","D","M","A","R","C","1",";"," ","p","=","r","e","j","e","c","t","\"">>
RD_dmarc_quarantine ==
  <<"\"","v","=","D","M","A","R","C","1",";"," ","p","=","q","u","a","r","a","n","t","i","n","e",";"," ","r","u","a","=","m","a","i","l","t","o",":","x","@","y",".","c","o","m","\"">>
RD_dmarc_nop ==
  <<"\"","v","=","D","M","A","R","C","1",";"," ","r","u","a","=","m","a","i","l","t","o",":","x","@","y",".","c","o","m","\"">>
RD_dmarc_other ==
  <<"\"","p","=","r","e","j","e","c","t","\"">>
RD_dkim_key ==
  <<"\"","v","=","D","K","I","M","1",";"," ","k","=","r","s","a",";"," ","p","=","M","I","G","f","M","A","0","G","C","S","q","G","S","I","b","3","D","Q","E","B","A","Q","U","A","A","4","G","N","A","D","C","B","i","Q","K","B","g","Q","C","7","\"">>
RD_dkim_other ==
  <<"\"","k","=","r","s","a",";"," ","p","=","M","I","G","f","\"">>
RD_bimi ==
  <<"\"","v","=","B","I","M","I","1",";"," ","l","=","h","t","t","p","s",":","/","/","a",".","i","o","/","l",".","s","v","g","\"">>
RD_bimi_other ==
  <<"\"","x"," ","v","=","b","i","m","i","1","\"">>
RD_sts ==
  <<"\"","v","=","s","t","s","1",";"," ","i","d","=","1","\"">>
RD_sts_v1 ==
  <<"\"","v","=","S","T","S","v","1",";"," ","i","d","=","1","\"">>
MXH_one ==
  <<"m","x","1",".","a",".","i","o",".">>
MXH_two ==
  <<"m","x","2",".","a",".","i","o",".">>
LINE_plain ==
  <<"a",".","i","o">>
LINE_url ==
  <<"h","t","t","p",":","/","/","b",".","i","o","/","p">>
LINE_www ==
  <<"w","w","w",".">>
LINE_blank ==
  <<" ">>

\* re.findall(r'(\w+)=([^;]+)', txt), scanning from position i: the
\* leftmost run of word characters that is followed by "=" and at least
\* one character other than ";", then on from the end of that match
RECURSIVE findall_pairs(_, _)
findall_pairs(txt, i) ==
  IF i > Len(txt) THEN <<>>
  ELSE IF txt[i] \notin WordChars THEN findall_pairs(txt, i + 1)
  ELSE LET e == first_not_in(txt, i, WordChars)      \* just past the \w+ run
       IN IF /\ e + 1 <= Len(txt)
             /\ txt[e] = "="
             /\ txt[e + 1] # ";"
          THEN LET f == first_in(txt, e + 1, {";"})   \* just past [^;]+
               IN <<<<SubSeq(txt, i, e - 1), SubSeq(txt, e + 1, f - 1)>>>>
                    \o findall_pairs(txt, f)
          ELSE findall_pairs(txt, i + 1)

\* {k.strip(): v.strip() for k, v in pairs}.get(key, default): a later pair
\* with the same key replaces an earlier one
details_get(pairs, key, default) ==
  LET hits == {j \in 1..Len(pairs) : strip(pairs[j][1], Whitespace) = key}
  IN IF hits = {} THEN default
     ELSE strip(pairs[CHOOSE j \in hits : \A h \in hits : j >= h][2], Whitespace)

\* ------------------------------------------------------------------------
\* DNS fetch helpers
\* ------------------------------------------------------------------------
\* What dns.resolver.resolve does for one query: it answers with at least
\* one rdata, or raises NXDOMAIN, NoAnswer, Timeout or another exception.
FailKinds == {"NXDOMAIN", "NoAnswer", "Timeout", "Error"}

Failed(kind) == [kind |-> kind, rdata |-> <<>>]

Answer(rdata) == [kind |-> "answer", rdata |-> rdata]

\* f"{subdomain}.{domain}" if subdomain else domain
full_domain(dom, subdomain) ==
  IF subdomain # <<>> THEN subdomain \o <<".">> \o dom ELSE dom

\* fetch_txt_record: ret is the returned list, notice the st.error it shows
fetch_txt_record(o) ==
  IF o.kind = "answer"
  THEN [ret |-> [i \in 1..Len(o.rdata) |-> strip(o.rdata[i], {"\""})],
        notice |-> "none"]
  ELSE IF o.kind \in {"NXDOMAIN", "NoAnswer"}
  THEN [ret |-> <<>>, notice |-> "none"]
  ELSE IF o.kind = "Timeout"
  THEN [ret |-> <<>>, notice |-> "Timeout"]
  ELSE [ret |-> <<>>, notice |-> "DNS Error"]

\* fetch_mx_records: an MX rdata is <<preference, exchange>>
fetch_mx_records(o) ==
  IF o.kind = "answer"
  THEN [ret |-> [i \in 1..Len(o.rdata) |->
                   <<o.rdata[i][1], rstrip(o.rdata[i][2], {"."})>>],
        notice |-> "none"]
  ELSE IF o.kind \in {"NXDOMAIN", "NoAnswer"}
  THEN [ret |-> <<>>, notice |-> "none"]
  ELSE IF o.kind = "Timeout"
  THEN [ret |-> <<>>, notice |-> "Timeout"]
  ELSE [ret |-> <<>>, notice |-> "MX Error"]

\* check_tls: the value returned for each way the SMTP session can end
SmtpOutcomes ==
  {"starttls_ok", "SMTPNotSupportedError", "SSLError",
   "SMTPServerDisconnected", "OtherException"}

check_tls(smtp) ==
  IF smtp = "starttls_ok" THEN "True"
  ELSE IF smtp \in {"SMTPNotSupportedError", "SSLError", "SMTPServerDisconnected"}
  THEN "False"
  ELSE "None"

\* ------------------------------------------------------------------------
\* analyze_records: the per-mechanism loops
\* ------------------------------------------------------------------------
spf_default ==
  [present |-> FALSE, policy |-> STR_Missing,
   reasoning |-> "SPF missing--exposes you to spoofing. A -all policy blocks unauthorized senders.",
   recommendation |-> "Add v=spf1 -all for top-tier security"]

\* lines 96-104: what a record that begins with v=spf1 does to the finding
spf_classify(spf_, txt) ==
  IF contains(lower(txt), TOK_HARD)
  THEN [present |-> TRUE, policy |-> TOK_HARD,
        reasoning |-> "Strong -all policy in place, minimizing spoofing risks.",
        recommendation |-> "Perfect--maintain and monitor!"]
  ELSE IF contains(lower(txt), TOK_SOFT)
  THEN [present |-> TRUE, policy |-> TOK_SOFT,
        reasoning |-> "~all soft-fails but allows some spoofing. Upgrade for full protection.",
        recommendation |-> "Switch to -all to lock it down."]
  ELSE [spf_ EXCEPT !.present = TRUE]

\* variant of spf_body that classifies only the first matching record
spf_body_first(spf_, txt) ==
  IF startswith(lower(txt), TAG_SPF) /\ ~spf_.present
  THEN spf_classify(spf_, txt)
  ELSE spf_

\* body of "for txt in spf_records"
spf_body(spf_, txt) ==
  IF startswith(lower(txt), TAG_SPF)
  THEN spf_classify(spf_, txt)
  ELSE spf_

RECURSIVE spf_loop(_, _, _)
spf_loop(spf_, records, i) ==
  IF i > Len(records) THEN spf_
  ELSE spf_loop(spf_body(spf_, records[i]), records, i + 1)

dmarc_default ==
  [present |-> FALSE, policy |-> STR_Missing,
   reasoning |-> <<<<>>, "No DMARC means no email authentication--clients could be spoofed easily.">>,
   recommendation |-> "Add v=DMARC1; p=reject for robust defense"]

\* lines 111-116: the finding a record that contains v=dmarc1 produces; the
\* f-string reasoning is kept as <<interpolated policy, rest of the text>>
dmarc_classify(txt) ==
  LET policy == details_get(findall_pairs(txt, 1), STR_p, STR_none)
  IN [present |-> TRUE, policy |-> policy,
      reasoning |->
        <<policy, IF policy = STR_reject
                  THEN " policy detected--great for blocking fakes."
                  ELSE " policy detected--vulnerable to spoofing, upgrade needed.">>,
      recommendation |->
        IF policy = STR_reject THEN "Monitor reports"
        ELSE "Upgrade to reject for max security."]

\* variant of dmarc_body that parses the policy before testing the tag
dmarc_body_untagged(dmarc_, txt) ==
  IF contains(lower(txt), TAG_DMARC)
  THEN dmarc_classify(txt)
  ELSE [dmarc_ EXCEPT !.policy = details_get(findall_pairs(txt, 1), STR_p, dmarc_.policy)]

\* body of "for txt in dmarc_records"
dmarc_body(dmarc_, txt) ==
  IF contains(lower(txt), TAG_DMARC)
  THEN dmarc_classify(txt)
  ELSE dmarc_

RECURSIVE dmarc_loop(_, _, _)
dmarc_loop(dmarc_, records, i) ==
  IF i > Len(records) THEN dmarc_
  ELSE dmarc_loop(dmarc_body(dmarc_, records[i]), records, i + 1)

common_selectors == <<SEL_google, SEL_default, SEL_selector1, SEL_selector2>>

\* body of "for txt in dkim_records"; acc holds dkim_count, dkim_selectors
\* and dkim_present
dkim_body(acc, selector, txt) ==
  IF contains(lower(txt), TAG_DKIM)
  THEN [count |-> acc.count + 1,
        selectors |-> Append(acc.selectors,
                        selector \o STR_colon_space \o prefix_slice(txt, 50) \o STR_ellipsis),
        present |-> TRUE]
  ELSE acc

RECURSIVE dkim_loop(_, _, _, _)
dkim_loop(acc, selector, records, i) ==
  IF i > Len(records) THEN acc
  ELSE dkim_loop(dkim_body(acc, selector, records[i]), selector, records, i + 1)

\* the dkim dict of lines 130-132
dkim_finding(acc) ==
  [present |-> acc.present, count |-> acc.count, selectors |-> acc.selectors,
   reasoning |-> IF acc.present
                 THEN "DKIM present with valid records, enhancing email trust."
                 ELSE "DKIM missing--emails lack sender verification, hurting trust.",
   recommendation |-> IF acc.present THEN "Maintain and rotate keys annually"
                      ELSE "Add selectors for verified sending"]

\* the mx dict of lines 143-149
mx_finding(records, tls) ==
  [present |-> records # <<>>, records |-> records, tls |-> tls,
   reasoning |-> IF records = <<>> THEN "No MX records--email delivery will fail."
                 ELSE IF Len(records) = 1
                 THEN "Single MX record detected--consider adding a backup for redundancy."
                 ELSE "Multiple MX records with priorities--good redundancy, but check target security.",
   recommendation |-> IF records = <<>> THEN "Add MX records to enable email."
                      ELSE IF Len(records) = 1
                      THEN "Add a secondary MX with higher priority (e.g., 20)."
                      ELSE "Verify TLS support on all MX targets (see report)."]

\* None of the "record" field is the empty sequence (a matched record is
\* never empty, it begins with the version tag)
NoRecord == <<>>

bimi_default ==
  [present |-> FALSE, record |-> NoRecord,
   reasoning |-> "BIMI missing--missed chance to brand emails.",
   recommendation |-> "Add v=bimi1 record for email branding."]

bimi_body(bimi_, txt) ==
  IF startswith(lower(txt), TAG_BIMI)
  THEN [present |-> TRUE, record |-> txt,
        reasoning |-> "BIMI present--emails can display your logo.",
        recommendation |-> "Ensure logo is uploaded and policy complies."]
  ELSE bimi_

RECURSIVE bimi_loop(_, _, _)
bimi_loop(bimi_, records, i) ==
  IF i > Len(records) THEN bimi_
  ELSE bimi_loop(bimi_body(bimi_, records[i]), records, i + 1)

mta_sts_default ==
  [present |-> FALSE, record |-> NoRecord,
   reasoning |-> "MTA-STS missing--email lacks TLS enforcement.",
   recommendation |-> "Add v=sts1 record for TLS security."]

mta_sts_body(mta_sts_, txt) ==
  IF startswith(lower(txt), TAG_STS)
  THEN [present |-> TRUE, record |-> txt,
        reasoning |-> "MTA-STS present--TLS enforcement active.",
        recommendation |-> "Monitor and maintain STS policy."]
  ELSE mta_sts_

RECURSIVE mta_sts_loop(_, _, _)
mta_sts_loop(mta_sts_, records, i) ==
  IF i > Len(records) THEN mta_sts_
  ELSE mta_sts_loop(mta_sts_body(mta_sts_, records[i]), records, i + 1)

\* ------------------------------------------------------------------------
\* compute_score
\* ------------------------------------------------------------------------
\* truth value of a tri-state probe result: only True is truthy
truthy(v) == v = "True"

\* variant of dmarc_points without the quarantine branch
dmarc_points_flat(dmarc_) ==
  IF dmarc_.present
  THEN IF dmarc_.policy = STR_reject THEN 40 ELSE 20
  ELSE 0

dmarc_points(dmarc_) ==
  IF dmarc_.present
  THEN IF dmarc_.policy = STR_reject THEN 40
       ELSE IF dmarc_.policy = STR_quarantine THEN 30
       ELSE 20
  ELSE 0

dkim_points(dkim_) == IF dkim_.present THEN 30 ELSE 0

spf_points(spf_) ==
  IF spf_.present
  THEN IF spf_.policy = TOK_HARD THEN 30 ELSE 20
  ELSE 0

\* variant of tls_all that only rejects an explicit False
tls_all_lenient(tls) == \A host \in DOMAIN tls : tls[host] # "False"

\* all(mx["tls"].get(host, False) for host in mx["tls"])
tls_all(tls) == \A host \in DOMAIN tls : truthy(tls[host])

mx_points(mx_) ==
  IF mx_.present
  THEN 10 + (IF Len(mx_.records) > 1 THEN 10 ELSE 0)
          + (IF tls_all(mx_.tls) THEN 10 ELSE 0)
  ELSE 0

bimi_points(bimi_) == IF bimi_.present THEN 5 ELSE 0

mta_sts_points(mta_sts_) == IF mta_sts_.present THEN 5 ELSE 0

\* the value of score just before "return min(score, 100)"
score_sum(dmarc_, dkim_, spf_, mx_, bimi_, mta_sts_) ==
  dmarc_points(dmarc_) + dkim_points(dkim_) + spf_points(spf_)
    + mx_points(mx_) + bimi_points(bimi_) + mta_sts_points(mta_sts_)

min(a, b) == IF a < b THEN a ELSE b

\* variant of compute_score that returns the sum unclamped
compute_score_unclamped(dmarc_, dkim_, spf_, mx_, bimi_, mta_sts_) ==
  score_sum(dmarc_, dkim_, spf_, mx_, bimi_, mta_sts_)

compute_score(dmarc_, dkim_, spf_, mx_, bimi_, mta_sts_) ==
  min(score_sum(dmarc_, dkim_, spf_, mx_, bimi_, mta_sts_), 100)

\* ------------------------------------------------------------------------
\* Batch loop helpers
\* ------------------------------------------------------------------------
\* urlparse(url).netloc: a valid scheme up to the first ":" is split off,
\* then a leading "//" introduces the netloc, which runs to the next "/",
\* "?" or "#"
urlparse_netloc(url) ==
  LET c == first_in(url, 1, {":"})
      has_scheme == /\ c <= Len(url)
                    /\ c > 1
                    /\ url[1] \in Letters
                    /\ \A j \in 1..(c - 1) : url[j] \in SchemeChars
      rest == IF has_scheme THEN SubSeq(url, c + 1, Len(url)) ELSE url
  IN IF Len(rest) >= 2 /\ SubSeq(rest, 1, 2) = <<"/", "/">>
     THEN SubSeq(rest, 3, first_in(rest, 3, {"/", "?", "#"}) - 1)
     ELSE <<>>

\* lines 322-323; lstrip('www.') drops leading characters of the SET {w, .}
normalize(d) ==
  LET host == IF contains(d, STR_scheme_sep) THEN urlparse_netloc(d)
              ELSE strip(d, {"/"})
  IN lstrip(host, {STR_www[j] : j \in 1..Len(STR_www)})

\* line 314: [d.strip() for d in domain_input.split('\n') if d.strip()],
\* over the lines of the text area
RECURSIVE split_domains(_, _)
split_domains(lines, i) ==
  IF i > Len(lines) THEN <<>>
  ELSE IF strip(lines[i], Whitespace) # <<>>
  THEN <<strip(lines[i], Whitespace)>> \o split_domains(lines, i + 1)
  ELSE split_domains(lines, i + 1)

\* ------------------------------------------------------------------------
\* Inputs: what the resolver, the mail hosts and the user can supply
\* ------------------------------------------------------------------------
\* non-empty sequences over S of length at most n
SeqsUpTo(S, n) == UNION {[1..m -> S] : m \in 1..n}

SpfPool == {RD_spf_hard, RD_spf_soft, RD_spf_neutral, RD_txt_note}
DmarcPool == {RD_dmarc_reject, RD_dmarc_quarantine, RD_dmarc_nop, RD_dmarc_other}
DkimPool == {RD_dkim_key, RD_dkim_other}
BimiPool == {RD_bimi, RD_bimi_other}
MtaStsPool == {RD_sts, RD_sts_v1}
MxPool == {<<10, MXH_one>>, <<20, MXH_one>>, <<20, MXH_two>>}
LinePool == {LINE_plain, LINE_url, LINE_www, LINE_blank}

Failures == {Failed(kind) : kind \in FailKinds}
TxtOutcomes(pool) == Failures \cup {Answer(r) : r \in SeqsUpTo(pool, MaxTxt)}
MxOutcomes == Failures \cup {Answer(r) : r \in SeqsUpTo(MxPool, MaxMx)}
MxSingle == Failures \cup {Answer(<<r>>) : r \in MxPool}

\* ------------------------------------------------------------------------
\* State
\* ------------------------------------------------------------------------
VARIABLES
  pc,                  \* position of the script / of analyze_records
  domain_input,        \* lines of the submitted text area
  domains,             \* line 314
  status_placeholders, \* keys of the dict of line 319
  idx,                 \* position of "for domain in domains"
  domain,              \* loop variable after lines 322-323
  all_results,         \* dict of line 318: domain -> report
  exc,                 \* uncaught exception, "none" while there is none
  queries,             \* DNS queries issued so far: <<name, type>>
  txt_records,         \* list returned by the latest fetch_txt_record
  spf, dmarc, dkim, mx, bimi, mta_sts,
  sel,                 \* position of "for selector in common_selectors"
  dkim_count, dkim_selectors, dkim_present,
  mx_records,
  futures,             \* future_to_host, in insertion order
  wait_idx,            \* position of "for future in future_to_host"
  mx_tls

batchVars == <<domain_input, domains, status_placeholders, idx, domain, all_results, exc>>
dnsVars == <<queries, txt_records>>
findingVars == <<spf, dmarc, dkim, mx, bimi, mta_sts>>
dkimVars == <<sel, dkim_count, dkim_selectors, dkim_present>>
mxVars == <<mx_records, futures, wait_idx, mx_tls>>
vars == <<pc, batchVars, dnsVars, findingVars, dkimVars, mxVars>>

EmptyMap == [h \in {} |-> "None"]

dkim_acc0 == [count |-> 0, selectors |-> <<>>, present |-> FALSE]

\* the locals of a finished call, back to their unassigned values
LocalsReset ==
  /\ txt_records' = <<>>
  /\ spf' = spf_default
  /\ dmarc' = dmarc_default
  /\ dkim' = dkim_finding(dkim_acc0)
  /\ mx' = mx_finding(<<>>, EmptyMap)
  /\ bimi' = bimi_default
  /\ mta_sts' = mta_sts_default
  /\ sel' = 1
  /\ dkim_count' = 0
  /\ dkim_selectors' = <<>>
  /\ dkim_present' = FALSE
  /\ mx_records' = <<>>
  /\ futures' = <<>>
  /\ wait_idx' = 1
  /\ mx_tls' = EmptyMap


\* the locals of analyze_records before the function has assigned them
LocalsInit ==
  /\ txt_records = <<>>
  /\ spf = spf_default
  /\ dmarc = dmarc_default
  /\ dkim = dkim_finding(dkim_acc0)
  /\ mx = mx_finding(<<>>, EmptyMap)
  /\ bimi = bimi_default
  /\ mta_sts = mta_sts_default
  /\ sel = 1
  /\ dkim_count = 0
  /\ dkim_selectors = <<>>
  /\ dkim_present = FALSE
  /\ mx_records = <<>>
  /\ futures = <<>>
  /\ wait_idx = 1
  /\ mx_tls = EmptyMap

Init ==
  /\ pc = "form"
  /\ domain_input = <<>>
  /\ domains = <<>>
  /\ status_placeholders = {}
  /\ idx = 1
  /\ domain = <<>>
  /\ all_results = EmptyMap
  /\ exc = "none"
  /\ queries = <<>>
  /\ LocalsInit

\* ------------------------------------------------------------------------
\* Batch loop (lines 313-329)
\* ------------------------------------------------------------------------
\* the form is submitted with the given lines
Submit(lines) ==
  /\ pc = "form"
  /\ domain_input' = lines
  /\ domains' = split_domains(lines, 1)
  /\ IF domains' = <<>>
     THEN /\ pc' = "done"                    \* "Enter at least one domain!"
          /\ UNCHANGED status_placeholders
     ELSE /\ pc' = "loop"
          /\ status_placeholders' = {domains'[i] : i \in 1..Len(domains')}
  /\ UNCHANGED <<idx, domain, all_results, exc>>
  /\ UNCHANGED <<dnsVars, findingVars, dkimVars, mxVars>>

\* one pass through lines 321-327: normalise the entry, then reject it or
\* enter analyze_records
LoopStep ==
  /\ pc = "loop"
  /\ idx <= Len(domains)
  /\ domain' = normalize(domains[idx])
  /\ IF domain' = <<>>
     THEN IF domain' \in status_placeholders      \* status_placeholders[domain]
          THEN /\ idx' = idx + 1                  \* continue
               /\ UNCHANGED <<pc, exc>>
          ELSE /\ pc' = "raised"
               /\ exc' = "KeyError"
               /\ UNCHANGED idx
     ELSE /\ pc' = "spf"
          /\ UNCHANGED <<idx, exc>>
  /\ UNCHANGED <<domain_input, domains, status_placeholders, all_results>>
  /\ UNCHANGED <<dnsVars, findingVars, dkimVars, mxVars>>

\* the for loop is exhausted
LoopEnd ==
  /\ pc = "loop"
  /\ idx > Len(domains)
  /\ pc' = "done"
  /\ UNCHANGED <<batchVars, dnsVars, findingVars, dkimVars, mxVars>>

\* ------------------------------------------------------------------------
\* analyze_records (lines 87-172)
\* ------------------------------------------------------------------------
Query(subdomain, type) == <<full_domain(domain, subdomain), type>>

AnalyzeSPF(o) ==
  /\ pc = "spf"
  /\ queries' = Append(queries, Query(<<>>, "TXT"))
  /\ txt_records' = fetch_txt_record(o).ret
  /\ spf' = spf_loop(spf_default, txt_records', 1)
  /\ pc' = "dmarc"
  /\ UNCHANGED <<dmarc, dkim, mx, bimi, mta_sts>>
  /\ UNCHANGED <<batchVars, dkimVars, mxVars>>

AnalyzeDMARC(o) ==
  /\ pc = "dmarc"
  /\ queries' = Append(queries, Query(LBL_dmarc, "TXT"))
  /\ txt_records' = fetch_txt_record(o).ret
  /\ dmarc' = dmarc_loop(dmarc_default, txt_records', 1)
  /\ pc' = "dkim"
  /\ UNCHANGED <<spf, dkim, mx, bimi, mta_sts>>
  /\ UNCHANGED <<batchVars, dkimVars, mxVars>>

\* one iteration of "for selector in common_selectors"; the last one is
\* followed by the construction of the dkim dict
AnalyzeDKIM(o) ==
  /\ pc = "dkim"
  /\ queries' = Append(queries, Query(common_selectors[sel] \o LBL_domainkey, "TXT"))
  /\ txt_records' = fetch_txt_record(o).ret
  /\ LET acc == dkim_loop([count |-> dkim_count, selectors |-> dkim_selectors,
                           present |-> dkim_present],
                          common_selectors[sel], txt_records', 1)
     IN /\ dkim_count' = acc.count
        /\ dkim_selectors' = acc.selectors
        /\ dkim_present' = acc.present
        /\ IF sel < Len(common_selectors)
           THEN /\ sel' = sel + 1
                /\ UNCHANGED <<pc, dkim>>
           ELSE /\ dkim' = dkim_finding(acc)
                /\ pc' = "mx"
                /\ UNCHANGED sel
  /\ UNCHANGED <<spf, dmarc, mx, bimi, mta_sts>>
  /\ UNCHANGED <<batchVars, mxVars>>

\* line 135, then either the empty mx dict or the submission of one
\* check_tls task per MX record (line 140)
FetchMX(o) ==
  /\ pc = "mx"
  /\ queries' = Append(queries, Query(<<>>, "MX"))
  /\ txt_records' = <<>>
  /\ mx_records' = fetch_mx_records(o).ret
  /\ mx_tls' = EmptyMap
  /\ wait_idx' = 1
  /\ IF mx_records' = <<>>
     THEN /\ futures' = <<>>
          /\ mx' = mx_finding(mx_records', mx_tls')
          /\ pc' = "bimi"
     ELSE /\ futures' = [i \in 1..Len(mx_records') |->
                           [host |-> mx_records'[i][2], state |-> "queued",
                            result |-> "None"]]
          /\ mx' = mx
          /\ pc' = "probe"
  /\ UNCHANGED <<spf, dmarc, dkim, bimi, mta_sts>>
  /\ UNCHANGED <<batchVars, dkimVars>>

\* ThreadPoolExecutor(max_workers=min(len(mx_records), 4))
max_workers == min(Len(mx_records), 4)

Running == {i \in 1..Len(futures) : futures[i].state = "running"}

\* a worker thread takes the oldest queued task
ProbeStart ==
  /\ pc \in {"probe", "shutdown"}
  /\ Cardinality(Running) < max_workers
  /\ \E i \in 1..Len(futures) :
       /\ futures[i].state = "queued"
       /\ \A j \in 1..(i - 1) : futures[j].state # "queued"
       /\ futures' = [futures EXCEPT ![i].state = "running"]
  /\ UNCHANGED <<pc, batchVars, dnsVars, findingVars, dkimVars>>
  /\ UNCHANGED <<mx_records, wait_idx, mx_tls>>

\* check_tls returns in its worker thread
ProbeFinish ==
  /\ pc \in {"probe", "shutdown"}
  /\ \E i \in Running, smtp \in SmtpOutcomes :
       futures' = [futures EXCEPT ![i].state = "done",
                                  ![i].result = check_tls(smtp)]
  /\ UNCHANGED <<pc, batchVars, dnsVars, findingVars, dkimVars>>
  /\ UNCHANGED <<mx_records, wait_idx, mx_tls>>

\* future.result(timeout=15) returns: line 142, and after the last future
\* the with block ends and the mx dict is built
WaitResult ==
  /\ pc = "probe"
  /\ futures[wait_idx].state = "done"
  /\ mx_tls' = (futures[wait_idx].host :> futures[wait_idx].result) @@ mx_tls
  /\ IF wait_idx < Len(futures)
     THEN /\ wait_idx' = wait_idx + 1
          /\ UNCHANGED <<pc, mx>>
     ELSE /\ mx' = mx_finding(mx_records, mx_tls')
          /\ pc' = "bimi"
          /\ UNCHANGED wait_idx
  /\ UNCHANGED <<spf, dmarc, dkim, bimi, mta_sts>>
  /\ UNCHANGED <<batchVars, dnsVars, dkimVars, mx_records, futures>>

\* future.result(timeout=15) gives up on a future that is not done: it
\* raises TimeoutError, and the with block starts executor.shutdown(wait=True).
\* The timer is abstracted: check_tls has no bound on its total running
\* time, so the 15 seconds can run out whenever the future is unfinished.
WaitTimeout ==
  /\ pc = "probe"
  /\ futures[wait_idx].state # "done"
  /\ exc' = "TimeoutError"
  /\ pc' = "shutdown"
  /\ UNCHANGED <<domain_input, domains, status_placeholders, idx, domain, all_results>>
  /\ UNCHANGED <<dnsVars, findingVars, dkimVars, mxVars>>

\* shutdown(wait=True) has joined every worker: the exception leaves
\* analyze_records and the script
Propagate ==
  /\ pc = "shutdown"
  /\ \A i \in 1..Len(futures) : futures[i].state = "done"
  /\ pc' = "raised"
  /\ UNCHANGED <<batchVars, dnsVars, findingVars, dkimVars, mxVars>>

AnalyzeBIMI(o) ==
  /\ pc = "bimi"
  /\ queries' = Append(queries, Query(LBL_bimi, "TXT"))
  /\ txt_records' = fetch_txt_record(o).ret
  /\ bimi' = bimi_loop(bimi_default, txt_records', 1)
  /\ pc' = "mta_sts"
  /\ UNCHANGED <<spf, dmarc, dkim, mx, mta_sts>>
  /\ UNCHANGED <<batchVars, dkimVars, mxVars>>

AnalyzeMTASTS(o) ==
  /\ pc = "mta_sts"
  /\ queries' = Append(queries, Query(LBL_mta_sts, "TXT"))
  /\ txt_records' = fetch_txt_record(o).ret
  /\ mta_sts' = mta_sts_loop(mta_sts_default, txt_records', 1)
  /\ pc' = "return"
  /\ UNCHANGED <<spf, dmarc, dkim, mx, bimi>>
  /\ UNCHANGED <<batchVars, dkimVars, mxVars>>

\* analyze_records returns; lines 328-329 score the findings and store the
\* report, and the loop moves on.  The locals of the call are gone.
StoreReport ==
  /\ pc = "return"
  /\ all_results' =
       (domain :> [dmarc |-> dmarc, dkim |-> dkim, spf |-> spf, mx |-> mx,
                   bimi |-> bimi, mta_sts |-> mta_sts,
                   score |-> compute_score(dmarc, dkim, spf, mx, bimi, mta_sts)])
         @@ all_results
  /\ idx' = idx + 1
  /\ pc' = "loop"
  /\ LocalsReset
  /\ UNCHANGED <<domain_input, domains, status_placeholders, domain, exc, queries>>

\* ------------------------------------------------------------------------
\* Specifications
\* ------------------------------------------------------------------------
TxtSingle(pool) == Failures \cup {Answer(<<r>>) : r \in pool}

SubmitOne == Submit(<<LINE_plain>>)
SubmitBatch == \E lines \in SeqsUpTo(LinePool, MaxBatch) : Submit(lines)

StepSPF == \E o \in TxtOutcomes(SpfPool) : AnalyzeSPF(o)
StepDMARC == \E o \in TxtOutcomes(DmarcPool) : AnalyzeDMARC(o)
StepDKIM == \E o \in TxtOutcomes(DkimPool) : AnalyzeDKIM(o)
StepMX == \E o \in MxOutcomes : FetchMX(o)

OneSPF == \E o \in TxtSingle(SpfPool) : AnalyzeSPF(o)
OneDMARC == \E o \in TxtSingle(DmarcPool) : AnalyzeDMARC(o)
OneDKIM == \E o \in TxtSingle(DkimPool) : AnalyzeDKIM(o)
OneMX == \E o \in MxSingle : FetchMX(o)
OneBIMI == \E o \in TxtSingle(BimiPool) : AnalyzeBIMI(o)
OneMTASTS == \E o \in TxtSingle(MtaStsPool) : AnalyzeMTASTS(o)

FailSPF == \E o \in Failures : AnalyzeSPF(o)
FailDMARC == \E o \in Failures : AnalyzeDMARC(o)
FailDKIM == \E o \in Failures : AnalyzeDKIM(o)
FailMX == \E o \in Failures : FetchMX(o)
FailBIMI == \E o \in Failures : AnalyzeBIMI(o)
FailMTASTS == \E o \in Failures : AnalyzeMTASTS(o)

\* Spec: one domain; the SPF, DMARC and DKIM queries may fail or answer with
\* up to MaxTxt strings; the MX, BIMI and MTA-STS queries fail
Next ==
  \/ SubmitOne \/ LoopStep \/ LoopEnd
  \/ StepSPF \/ StepDMARC \/ StepDKIM \/ FailMX \/ FailBIMI \/ FailMTASTS
  \/ StoreReport

Spec == Init /\ [][Next]_vars

\* SpecScore: one domain; every query may fail or answer with one record,
\* and the MX host is probed
NextScore ==
  \/ SubmitOne \/ LoopStep \/ LoopEnd
  \/ OneSPF \/ OneDMARC \/ OneDKIM
  \/ OneMX \/ ProbeStart \/ ProbeFinish \/ WaitResult \/ WaitTimeout \/ Propagate
  \/ OneBIMI \/ OneMTASTS \/ StoreReport

SpecScore == Init /\ [][NextScore]_vars

\* SpecMx: one domain whose TXT queries all fail; the MX query may fail or
\* answer with up to MaxMx records, whose hosts are probed
NextMx ==
  \/ SubmitOne \/ LoopStep \/ LoopEnd
  \/ FailSPF \/ FailDMARC \/ FailDKIM
  \/ StepMX \/ ProbeStart \/ ProbeFinish \/ WaitResult \/ WaitTimeout \/ Propagate
  \/ FailBIMI \/ FailMTASTS \/ StoreReport

SpecMx == Init /\ [][NextMx]_vars

\* SpecBatch: every batch of up to MaxBatch lines, on a host whose DNS
\* queries all fail
NextBatch ==
  \/ SubmitBatch \/ LoopStep \/ LoopEnd
  \/ FailSPF \/ FailDMARC \/ FailDKIM \/ FailMX \/ FailBIMI \/ FailMTASTS
  \/ StoreReport

SpecBatch == Init /\ [][NextBatch]_vars

\* ------------------------------------------------------------------------
\* Properties
\* ------------------------------------------------------------------------
Reports == {all_results[d] : d \in DOMAIN all_results}

ReportSum(r) == score_sum(r.dmarc, r.dkim, r.spf, r.mx, r.bimi, r.mta_sts)

\* the SPF stage has just run: txt_records is spf_records
AfterSPF == pc = "dmarc"

\* the DMARC stage has just run: txt_records is dmarc_records
AfterDMARC == pc = "dkim" /\ sel = 1

IsSpf(txt) == startswith(lower(txt), TAG_SPF)
HasAllToken(txt) == contains(lower(txt), TOK_HARD) \/ contains(lower(txt), TOK_SOFT)
IsDmarc(txt) == contains(lower(txt), TAG_DMARC)

\* C1: every score stored for a domain is an integer between 0 and 100,
\* also when the weights and bonuses add up to more than 100.
C1_ScoreInRange == \A r \in Reports : r.score \in 0..100

\* a stored report whose weights and bonuses add up to more than 100
C1_Witness == \E r \in Reports : ReportSum(r) > 100 /\ r.score = 100

\* C2: when the bare-domain answer holds a record beginning with v=spf1 that
\* contains neither -all nor ~all, the SPF finding is present and its policy
\* is not the "Missing" sentinel.
C2_NeutralSpfHasPolicy ==
  (AfterSPF /\ \E i \in 1..Len(txt_records) :
                 IsSpf(txt_records[i]) /\ ~HasAllToken(txt_records[i]))
    => (spf.present /\ spf.policy # STR_Missing)

\* C3: an SPF or DMARC finding with present = false has the policy "Missing"
\* and the default recommendation of its mechanism, in analyze_records and
\* in every stored report; an empty _dmarc answer gives present = false and
\* policy "Missing" and the analysis goes on.
C3_AbsentIsMissing ==
  /\ \A f \in {spf} \cup {r.spf : r \in Reports} :
       ~f.present => /\ f.policy = STR_Missing
                     /\ f.recommendation = spf_default.recommendation
  /\ \A f \in {dmarc} \cup {r.dmarc : r \in Reports} :
       ~f.present => /\ f.policy = STR_Missing
                     /\ f.recommendation = dmarc_default.recommendation
  /\ (AfterDMARC /\ txt_records = <<>>)
       => (~dmarc.present /\ dmarc.policy = STR_Missing /\ exc = "none")

\* the DMARC stage has run on an answer whose records do not match, after
\* an SPF stage that found nothing either
C3_Witness ==
  /\ AfterDMARC
  /\ txt_records # <<>>
  /\ ~dmarc.present
  /\ ~spf.present

\* C4: an entry that is empty after normalisation raises nothing, gets no
\* report, and once the loop has ended every other entry of the batch has
\* its report.
C4_InvalidEntrySkipped ==
  /\ exc # "KeyError"
  /\ <<>> \notin DOMAIN all_results
  /\ pc = "done" =>
       \A i \in 1..Len(domains) :
         normalize(domains[i]) # <<>> => normalize(domains[i]) \in DOMAIN all_results

\* C5: waiting for a probe that has not reported in time never ends
\* analyze_records with an exception.
C5_SlowProbeIsUnknown == ~(exc = "TimeoutError" /\ pc \in {"shutdown", "raised"})

\* C6: a stored score includes the +10 transport bonus if and only if the
\* transport map of its MX finding is non-empty and all its values are
\* True.  (In SpecMx every other mechanism is absent, so the score is the
\* MX part alone.)
C6_TransportBonus ==
  \A r \in Reports :
    LET base == (IF r.mx.present THEN 10 ELSE 0)
                  + (IF Len(r.mx.records) > 1 THEN 10 ELSE 0)
        qualifies == /\ DOMAIN r.mx.tls # {}
                     /\ \A h \in DOMAIN r.mx.tls : r.mx.tls[h] = "True"
    IN /\ r.score \in {base, base + 10}
       /\ (r.score = base + 10) <=> qualifies

\* a stored report whose transport map mixes True with unknown
C6_Witness ==
  \E r \in Reports :
    /\ \E h \in DOMAIN r.mx.tls : r.mx.tls[h] = "None"
    /\ \E h \in DOMAIN r.mx.tls : r.mx.tls[h] = "True"

\* C7: the DKIM count never exceeds the number of selectors probed, and
\* present is count > 0.
C7_DkimCountBounded ==
  /\ dkim_count <= Len(common_selectors)
  /\ dkim_present = (dkim_count > 0)

\* C8: in every stored report the DMARC part of the pre-clamp sum is 0 when
\* absent, 40 for reject, 30 for quarantine and 20 for any other policy,
\* whatever the other findings are.
C8_DmarcContribution ==
  \A r \in Reports :
    LET part == ReportSum(r) - ReportSum([r EXCEPT !.dmarc = dmarc_default])
    IN part = IF ~r.dmarc.present THEN 0
              ELSE IF r.dmarc.policy = STR_reject THEN 40
              ELSE IF r.dmarc.policy = STR_quarantine THEN 30
              ELSE 20

\* a stored report whose DMARC policy is neither reject nor quarantine, with
\* DKIM and MX present
C8_Witness ==
  \E r \in Reports :
    /\ r.dmarc.present
    /\ r.dmarc.policy \notin {STR_reject, STR_quarantine}
    /\ r.dkim.present
    /\ r.mx.present

\* C9: a query that returned nothing leaves its mechanism absent, and
\* analyze_records always runs to completion.
C9_FaultsAbsorbed ==
  /\ (AfterSPF /\ txt_records = <<>>) => ~spf.present
  /\ (AfterDMARC /\ txt_records = <<>>) => ~dmarc.present
  /\ (pc = "bimi" /\ mx_records = <<>>) => ~mx.present
  /\ (pc = "mta_sts" /\ txt_records = <<>>) => ~bimi.present
  /\ (pc = "return" /\ txt_records = <<>>) => ~mta_sts.present
  /\ pc \notin {"shutdown", "raised"}

\* the part of C9 about the fetch helpers and the findings alone
C9_FetchPart ==
  /\ (AfterSPF /\ txt_records = <<>>) => ~spf.present
  /\ (AfterDMARC /\ txt_records = <<>>) => ~dmarc.present
  /\ (pc = "bimi" /\ mx_records = <<>>) => ~mx.present
  /\ (pc = "mta_sts" /\ txt_records = <<>>) => ~bimi.present
  /\ (pc = "return" /\ txt_records = <<>>) => ~mta_sts.present
  /\ \A o \in Failures : fetch_txt_record(o).ret = <<>> /\ fetch_mx_records(o).ret = <<>>

FirstOf(S) == CHOOSE i \in S : \A j \in S : i <= j
LastOf(S) == CHOOSE i \in S : \A j \in S : i >= j

SpfMatches(records) == {i \in 1..Len(records) : IsSpf(records[i])}
DmarcMatches(records) == {i \in 1..Len(records) : IsDmarc(records[i])}

\* C10 as stated: the first matching record alone decides the finding.
C10_FirstMatchDecides ==
  /\ AfterSPF =>
       spf = IF SpfMatches(txt_records) = {} THEN spf_default
             ELSE spf_classify(spf_default, txt_records[FirstOf(SpfMatches(txt_records))])
  /\ AfterDMARC =>
       dmarc = IF DmarcMatches(txt_records) = {} THEN dmarc_default
               ELSE dmarc_classify(txt_records[FirstOf(DmarcMatches(txt_records))])

\* C10 amended: the DMARC finding is that of the last record containing
\* v=dmarc1; the SPF finding is that of the last record beginning with
\* v=spf1 that contains -all or ~all, and is present with the default texts
\* when no matching record contains either.
C10_LastMatchDecides ==
  /\ AfterSPF =>
       LET m == SpfMatches(txt_records)
           t == {i \in m : HasAllToken(txt_records[i])}
       IN spf = IF m = {} THEN spf_default
                ELSE IF t = {} THEN [spf_default EXCEPT !.present = TRUE]
                ELSE spf_classify(spf_default, txt_records[LastOf(t)])
  /\ AfterDMARC =>
       LET m == DmarcMatches(txt_records)
       IN dmarc = IF m = {} THEN dmarc_default
                  ELSE dmarc_classify(txt_records[LastOf(m)])

\* the SPF stage has run on an answer with two matching records that
\* classify differently
C10_Witness ==
  /\ AfterSPF
  /\ \E i, j \in SpfMatches(txt_records) :
       /\ i < j
       /\ HasAllToken(txt_records[i])
       /\ HasAllToken(txt_records[j])
       /\ spf_classify(spf_default, txt_records[i]) # spf_classify(spf_default, txt_records[j])
       /\ spf = spf_classify(spf_default, txt_records[j])

\* the nine queries of one analysis of dom, in the order of the claim
ExpectedQueries(dom) ==
  << <<dom, "TXT">>,
     <<LBL_dmarc \o <<".">> \o dom, "TXT">>,
     <<SEL_google \o LBL_domainkey \o <<".">> \o dom, "TXT">>,
     <<SEL_default \o LBL_domainkey \o <<".">> \o dom, "TXT">>,
     <<SEL_selector1 \o LBL_domainkey \o <<".">> \o dom, "TXT">>,
     <<SEL_selector2 \o LBL_domainkey \o <<".">> \o dom, "TXT">>,
     <<dom, "MX">>,
     <<LBL_bimi \o <<".">> \o dom, "TXT">>,
     <<LBL_mta_sts \o <<".">> \o dom, "TXT">> >>

IsPrefix(s, t) == Len(s) <= Len(t) /\ s = SubSeq(t, 1, Len(s))

\* analyze_records has ended, by returning or by an exception
AnalysisEnded == pc \in {"return", "raised"}

\* C11: the queries issued for the domain are, in order and once each, TXT
\* at the bare domain, at _dmarc and at the four _domainkey selectors, MX at
\* the bare domain, TXT at _bimi and at _mta-sts; when the analysis has
\* ended none of the nine was skipped.
C11_QuerySequence ==
  /\ IsPrefix(queries, ExpectedQueries(domain))
  /\ AnalysisEnded => queries = ExpectedQueries(domain)

\* the part of C11 about order and repetition alone: what has been issued
\* is always an initial part of the nine queries, and all nine when
\* analyze_records returns
C11_OrderPart ==
  /\ IsPrefix(queries, ExpectedQueries(domain))
  /\ pc = "return" => queries = ExpectedQueries(domain)

\* C12: no two probe tasks of the transport stage are for the same host.
C12_OneProbePerHost ==
  \A i, j \in 1..Len(futures) : futures[i].host = futures[j].host => i = j

\* the part of C12 about the transport map: every entry is the result of a
\* finished probe of that host
C12_MapPart ==
  \A h \in DOMAIN mx_tls :
    \E i \in 1..Len(futures) :
      /\ futures[i].host = h
      /\ futures[i].state = "done"
      /\ futures[i].result = mx_tls[h]
====
